---- MODULE Spec2Model ----
(***************************************************************************)
(* A model of cargo-review-deps (src/src/lib.rs): the lock-file guard, the *)
(* update-diff orchestration, package identifiers and the diff             *)
(* orchestration.                                                          *)
(***************************************************************************)
EXTENDS Integers, Sequences, FiniteSets, TLC

\* ------------------------------------------------------------------------
\* Bounds
\* ------------------------------------------------------------------------
\* Longest file contents considered, in bytes.
MaxFileLen == 2

Bytes == {0, 1}

RECURSIVE SeqsUpTo(_, _)
SeqsUpTo(S, n) ==
  IF n = 0 THEN {<<>>}
  ELSE LET r == SeqsUpTo(S, n - 1)
       IN r \cup {Append(s, x) : s \in {t \in r : Len(t) = n - 1}, x \in S}

Contents == SeqsUpTo(Bytes, MaxFileLen)

\* ------------------------------------------------------------------------
\* Files and the std::fs calls the guard makes
\* ------------------------------------------------------------------------
NoFile == [exists |-> FALSE, data |-> <<>>]

File(d) == [exists |-> TRUE, data |-> d]

ProperPrefixes(d) == {SubSeq(d, 1, n) : n \in 0..(Len(d) - 1)}

\* fs::read_to_string: the contents, or an error (missing, unreadable, not
\* UTF-8).  Never changes the file.
fs_read_to_string(f) ==
  IF f.exists
  THEN {[ok |-> TRUE, data |-> f.data], [ok |-> FALSE, data |-> <<>>]}
  ELSE {[ok |-> FALSE, data |-> <<>>]}

\* fs::write = File::create (create + truncate) followed by write_all.  It
\* succeeds, or fails at the open (file untouched), or fails during the write
\* (file exists and holds a proper prefix of the data).
fs_write(f, d) ==
  {[ok |-> TRUE, file |-> File(d)], [ok |-> FALSE, file |-> f]}
    \cup {[ok |-> FALSE, file |-> File(p)] : p \in ProperPrefixes(d)}

\* fs::remove_file: fails on a missing file, may fail on an existing one.
fs_remove_file(f) ==
  IF f.exists
  THEN {[ok |-> TRUE, file |-> NoFile], [ok |-> FALSE, file |-> f]}
  ELSE {[ok |-> FALSE, file |-> f]}

\* ------------------------------------------------------------------------
\* LockfileGuard
\* ------------------------------------------------------------------------
NoGuard == [live |-> FALSE, lockfile_contents |-> <<>>, restored |-> FALSE]

\* LockfileGuard::new as it would be if the guard did not keep what it read.
LockfileGuard_new_blank(lock, copy) ==
  LET reads == fs_read_to_string(lock)
  IN {[ok |-> FALSE, guard |-> NoGuard, copy |-> copy] :
         r \in {x \in reads : ~x.ok}}
     \cup UNION {
       {[ok |-> w.ok,
         guard |-> IF w.ok
                   THEN [live |-> TRUE, lockfile_contents |-> <<>>,
                         restored |-> FALSE]
                   ELSE NoGuard,
         copy |-> w.file] : w \in fs_write(copy, r.data)}
       : r \in {x \in reads : x.ok}}

\* LockfileGuard::new.  Outcomes: ok (the Result), the guard built, the
\* backup file afterwards.  The lock file is only read.
LockfileGuard_new(lock, copy) ==
  LET reads == fs_read_to_string(lock)
  IN {[ok |-> FALSE, guard |-> NoGuard, copy |-> copy] :
         r \in {x \in reads : ~x.ok}}
     \cup UNION {
       {[ok |-> w.ok,
         guard |-> IF w.ok
                   THEN [live |-> TRUE, lockfile_contents |-> r.data,
                         restored |-> FALSE]
                   ELSE NoGuard,
         copy |-> w.file] : w \in fs_write(copy, r.data)}
       : r \in {x \in reads : x.ok}}

\* restore_lockfile as it would be if it committed the update: the backup is
\* removed and the lock file is left as the collaborator wrote it.
restore_lockfile_keeps_new(g, lock, copy) ==
  {[ok |-> r.ok, guard |-> [g EXCEPT !.restored = TRUE], lock |-> lock,
    copy |-> r.file, writes |-> 0, writeOk |-> FALSE, removes |-> 1] :
      r \in fs_remove_file(copy)}

\* restore_lockfile as it would be with the two file operations swapped: the
\* backup is removed before the write is known to have succeeded.
restore_lockfile_remove_first(g, lock, copy) ==
  LET g2 == [g EXCEPT !.restored = TRUE]
  IN UNION {
       IF ~r.ok
       THEN {[ok |-> FALSE, guard |-> g2, lock |-> lock, copy |-> r.file,
              writes |-> 0, writeOk |-> FALSE, removes |-> 1]}
       ELSE {[ok |-> w.ok, guard |-> g2, lock |-> w.file, copy |-> r.file,
              writes |-> 1, writeOk |-> w.ok, removes |-> 1] :
                w \in fs_write(lock, g.lockfile_contents)}
       : r \in fs_remove_file(copy)}

\* restore_lockfile as it would be if the flag were set at the end, after
\* both file operations succeeded.
restore_lockfile_flag_last(g, lock, copy) ==
  UNION {
    IF ~w.ok
    THEN {[ok |-> FALSE, guard |-> g, lock |-> w.file, copy |-> copy,
           writes |-> 1, writeOk |-> FALSE, removes |-> 0]}
    ELSE {[ok |-> r.ok, guard |-> [g EXCEPT !.restored = r.ok],
           lock |-> w.file, copy |-> r.file,
           writes |-> 1, writeOk |-> TRUE, removes |-> 1] :
             r \in fs_remove_file(copy)}
    : w \in fs_write(lock, g.lockfile_contents)}

\* LockfileGuard::restore_lockfile.  Outcomes: ok (the Result), the guard, the
\* two files afterwards, and which file operations ran (writes: writes issued
\* to the lock file, writeOk: the write completed, removes: remove_file calls).
restore_lockfile(g, lock, copy) ==
  LET g2 == [g EXCEPT !.restored = TRUE]
  IN UNION {
       IF ~w.ok
       THEN {[ok |-> FALSE, guard |-> g2, lock |-> w.file, copy |-> copy,
              writes |-> 1, writeOk |-> FALSE, removes |-> 0]}
       ELSE {[ok |-> r.ok, guard |-> g2, lock |-> w.file, copy |-> r.file,
              writes |-> 1, writeOk |-> TRUE, removes |-> 1] :
                r \in fs_remove_file(copy)}
       : w \in fs_write(lock, g.lockfile_contents)}

\* Drop as it would be without the restore: the guard just goes away.
drop_forgets(g, lock, copy) ==
  {[ok |-> TRUE, failed |-> FALSE, guard |-> NoGuard, lock |-> lock,
    copy |-> copy, writes |-> 0, writeOk |-> FALSE, removes |-> 0]}

\* Drop as it would be with `.unwrap()` in place of `let _ =`: a failed
\* automatic restore escapes.
drop_unwrap(g, lock, copy) ==
  IF ~g.restored
  THEN {[ok |-> o.ok, failed |-> ~o.ok, guard |-> NoGuard, lock |-> o.lock,
         copy |-> o.copy, writes |-> o.writes, writeOk |-> o.writeOk,
         removes |-> o.removes] : o \in restore_lockfile(g, lock, copy)}
  ELSE {[ok |-> TRUE, failed |-> FALSE, guard |-> NoGuard, lock |-> lock,
         copy |-> copy, writes |-> 0, writeOk |-> FALSE, removes |-> 0]}

\* Drop for LockfileGuard.  Returns nothing: ok is always TRUE; failed records
\* that the automatic restore returned an error, which `let _ =` discards.
drop(g, lock, copy) ==
  IF ~g.restored
  THEN {[ok |-> TRUE, failed |-> ~o.ok, guard |-> NoGuard, lock |-> o.lock,
         copy |-> o.copy, writes |-> o.writes, writeOk |-> o.writeOk,
         removes |-> o.removes] : o \in restore_lockfile(g, lock, copy)}
  ELSE {[ok |-> TRUE, failed |-> FALSE, guard |-> NoGuard, lock |-> lock,
         copy |-> copy, writes |-> 0, writeOk |-> FALSE, removes |-> 0]}

\* ------------------------------------------------------------------------
\* Paths, the destination directory and the copy collaborators
\* ------------------------------------------------------------------------
\* A path: where it is rooted and its components below that, each a string
\* (a sequence of characters).
Path(root, parts) == [root |-> root, parts |-> parts]

NoPath == Path("", <<>>)

\* Path::join.
join(path, part) == [path EXCEPT !.parts = Append(@, part)]

\* Option<PathBuf>.
None == [some |-> FALSE, path |-> NoPath]

Some(path) == [some |-> TRUE, path |-> path]

\* Path::parent: None for a root and for the empty path.
parent(path) ==
  IF path.parts = <<>>
  THEN None
  ELSE Some([path EXCEPT !.parts = SubSeq(@, 1, Len(@) - 1)])

\* The directory given as --destination.
DestRoot == Path("dest", <<>>)

\* A destination tree is a set of <<path, what>>: what tells a directory
\* made by create_dir_all, a finished copy of a source directory, a copy that
\* failed midway, or something there before the run, apart.
Dir == [kind |-> "dir", from |-> NoPath]

Copy(src) == [kind |-> "copy", from |-> src]

Partial(src) == [kind |-> "partial", from |-> src]

Old == [kind |-> "old", from |-> NoPath]

Exists(d, path) == \E e \in d : e[1] = path

\* fs::create_dir_all: fine on an existing directory.
create_dir_all(d, path) ==
  {[ok |-> TRUE,
    dest |-> IF Exists(d, path) THEN d ELSE d \cup {<<path, Dir>>}],
   [ok |-> FALSE, dest |-> d]}

\* copy_dir::copy_dir: refuses an existing target; otherwise copies the tree,
\* or fails before or while copying.
copy_dir(d, src, path) ==
  IF Exists(d, path)
  THEN {[ok |-> FALSE, dest |-> d]}
  ELSE {[ok |-> TRUE, dest |-> d \cup {<<path, Copy(src)>>}],
        [ok |-> FALSE, dest |-> d],
        [ok |-> FALSE, dest |-> d \cup {<<path, Partial(src)>>}]}

\* ------------------------------------------------------------------------
\* Snapshots and their difference
\* ------------------------------------------------------------------------
\* Metadata::run on the ambient project: the resolution the lock file pins.
Snapshot(lock) == lock.data

\* metadata_diff: the body is `Vec::new()`.
metadata_diff(before, after) == <<>>

\* PackageDiff::dump_to on a destination tree: one side, then both.
dump_side(d, side, name, src) ==
  IF ~src.some
  THEN {[ok |-> TRUE, dest |-> d]}
  ELSE LET dst == join(join(DestRoot, <<side>>), name)
       IN UNION {IF ~c.ok THEN {c} ELSE copy_dir(c.dest, src.path, dst)
                 : c \in create_dir_all(d, dst)}

dump_to(pdiff, d) ==
  UNION {
    IF ~b.ok THEN {b} ELSE dump_side(b.dest, "after", pdiff.name, pdiff.after)
    : b \in dump_side(d, "before", pdiff.name, pdiff.before)}

\* ------------------------------------------------------------------------
\* PackageId: FromStr and Display
\* ------------------------------------------------------------------------
\* Strings are sequences of one-character strings.
DigitChars == <<"0", "1", "2", "3", "4", "5", "6", "7", "8", "9">>

IsDigit(c) == \E i \in 1..10 : DigitChars[i] = c

DigitVal(c) == (CHOOSE i \in 1..10 : DigitChars[i] = c) - 1

\* str::find(':'): the index of the first occurrence, 0 for None.
find(s, c) ==
  IF \E i \in 1..Len(s) : s[i] = c
  THEN CHOOSE i \in 1..Len(s) : s[i] = c /\ \A j \in 1..(i - 1) : s[j] # c
  ELSE 0

\* The longest run of digits at the start of s.
DigitRun(s) ==
  LET n == CHOOSE k \in 0..Len(s) :
             /\ \A i \in 1..k : IsDigit(s[i])
             /\ (k < Len(s) => ~IsDigit(s[k + 1]))
  IN SubSeq(s, 1, n)

RECURSIVE ParseNumber(_)
ParseNumber(ds) ==
  IF ds = <<>> THEN 0
  ELSE 10 * ParseNumber(SubSeq(ds, 1, Len(ds) - 1)) + DigitVal(ds[Len(ds)])

RECURSIVE FormatNumber(_)
FormatNumber(n) ==
  IF n < 10 THEN <<DigitChars[n + 1]>>
  ELSE FormatNumber(n \div 10) \o <<DigitChars[(n % 10) + 1]>>

\* A numeric identifier of a version: a digit run without a leading zero.
NumericIdentifier(s) ==
  LET ds == DigitRun(s)
  IN IF ds = <<>> \/ (Len(ds) > 1 /\ ds[1] = "0")
     THEN [ok |-> FALSE, value |-> 0, rest |-> s]
     ELSE [ok |-> TRUE, value |-> ParseNumber(ds),
           rest |-> SubSeq(s, Len(ds) + 1, Len(s))]

NoVersion == [major |-> 0, minor |-> 0, patch |-> 0]

VersionErr(why) == [ok |-> FALSE, version |-> NoVersion, msg |-> <<why>>]

\* `.parse::<Version>()` of the semver crate on major.minor.patch text (the
\* strings considered hold no '-' or '+', so no pre-release or build part).
\* The message of its error is the crate's own.
Version_from_str(s) ==
  LET a == NumericIdentifier(s)
  IN IF ~a.ok THEN VersionErr("Error parsing major identifier")
     ELSE IF a.rest = <<>> \/ a.rest[1] # "." THEN VersionErr("Expected dot")
     ELSE
       LET b == NumericIdentifier(Tail(a.rest))
       IN IF ~b.ok THEN VersionErr("Error parsing minor identifier")
          ELSE IF b.rest = <<>> \/ b.rest[1] # "."
          THEN VersionErr("Expected dot")
          ELSE
            LET c == NumericIdentifier(Tail(b.rest))
            IN IF ~c.ok THEN VersionErr("Error parsing patch identifier")
               ELSE IF c.rest # <<>>
               THEN [ok |-> FALSE, version |-> NoVersion,
                     msg |-> <<"Extra junk after valid version: ">>
                               \o c.rest]
               ELSE [ok |-> TRUE,
                     version |-> [major |-> a.value, minor |-> b.value,
                                  patch |-> c.value],
                     msg |-> <<>>]

\* Display for Version.
Version_fmt(v) ==
  FormatNumber(v.major) \o <<".">> \o FormatNumber(v.minor) \o <<".">>
    \o FormatNumber(v.patch)

\* `{:?}` of a str: quoted, with quotes and backslashes escaped.
RECURSIVE EscapeDebug(_)
EscapeDebug(s) ==
  IF s = <<>> THEN <<>>
  ELSE (IF Head(s) \in {"\"", "\\"} THEN <<"\\", Head(s)>> ELSE <<Head(s)>>)
         \o EscapeDebug(Tail(s))

DebugStr(s) == <<"\"">> \o EscapeDebug(s) \o <<"\"">>

NoId == [name |-> <<>>, version |-> NoVersion]

\* The message of the format_err! in from_str.
InvalidSpecification(s) ==
  <<"invalid package specification: ">> \o DebugStr(s)
    \o <<"; expected \"name:x.y.z\"">>

\* from_str as it would be if it split at the last ':'.
PackageId_from_str_rfind(s) ==
  LET idxs == {i \in 1..Len(s) : s[i] = ":"}
      colon_idx == IF idxs = {} THEN 0
                   ELSE CHOOSE i \in idxs : \A j \in idxs : j <= i
  IN IF colon_idx = 0
     THEN [ok |-> FALSE, id |-> NoId, msg |-> InvalidSpecification(s)]
     ELSE LET v == Version_from_str(SubSeq(s, colon_idx + 1, Len(s)))
          IN IF ~v.ok THEN [ok |-> FALSE, id |-> NoId, msg |-> v.msg]
             ELSE [ok |-> TRUE,
                   id |-> [name |-> SubSeq(s, 1, colon_idx - 1),
                           version |-> v.version],
                   msg |-> <<>>]

\* impl FromStr for PackageId.
PackageId_from_str(s) ==
  LET colon_idx == find(s, ":")
  IN IF colon_idx = 0
     THEN [ok |-> FALSE, id |-> NoId, msg |-> InvalidSpecification(s)]
     ELSE LET v == Version_from_str(SubSeq(s, colon_idx + 1, Len(s)))
          IN IF ~v.ok THEN [ok |-> FALSE, id |-> NoId, msg |-> v.msg]
             ELSE [ok |-> TRUE,
                   id |-> [name |-> SubSeq(s, 1, colon_idx - 1),
                           version |-> v.version],
                   msg |-> <<>>]

\* Display as it would be with the version's patch number left out.
PackageId_fmt_short(id) ==
  id.name \o <<":">> \o FormatNumber(id.version.major) \o <<".">>
    \o FormatNumber(id.version.minor)

\* impl fmt::Display for PackageId.
PackageId_fmt(id) == id.name \o <<":">> \o Version_fmt(id.version)

\* ------------------------------------------------------------------------
\* fetch: resolving one package version to its source directory
\* ------------------------------------------------------------------------
\* Packages a resolved snapshot lists besides the throwaway one, at most.
MaxDeps == 2

\* The package specifications given to diff.
DiffTexts ==
  {<<"a", ":", "1", ".", "0", ".", "0">>,
   <<"a", ":", "1", ".", "0", ".", "1">>,
   <<"b", ":", "1", ".", "0", ".", "0">>}

Ids == {PackageId_from_str(t).id : t \in DiffTexts}

\* A package of the registry as cargo metadata reports it.
RegistryPackage(id) ==
  [name |-> id.name,
   version |-> Version_fmt(id.version),
   id |-> id.name \o <<" ">> \o Version_fmt(id.version)
            \o <<" (registry+https://github.com/rust-lang/",
                 "crates.io-index", ")">>,
   manifest_path |->
     Path("registry",
          <<id.name \o <<"-">> \o Version_fmt(id.version), <<"Cargo.toml">>>>)]

\* The throwaway package of format_cargo_toml, in the scratch directory.
TempPackage ==
  [name |-> <<"cargo-diff-temp-pkg">>,
   version |-> <<"0", ".", "0", ".", "0">>,
   id |-> <<"cargo-diff-temp-pkg", " ", "0", ".", "0", ".", "0",
            " (path+file:///tmp/", "cargo-diff-fetches", ")">>,
   manifest_path |->
     Path("tmp", <<<<"cargo-diff-fetches">>, <<"Cargo.toml">>>>)]

\* The package of the project `current` is run in: a path package.
ProjectPackage ==
  [name |-> <<"p">>,
   version |-> <<"0", ".", "1", ".", "0">>,
   id |-> <<"p", " ", "0", ".", "1", ".", "0", " (path+file:///work/", "p",
            ")">>,
   manifest_path |-> Path("work", <<<<"p">>, <<"Cargo.toml">>>>)]

\* What a snapshot may list: the registry's packages, and one whose manifest
\* path has no parent.
Packages ==
  {RegistryPackage(i) : i \in Ids}
    \cup {[RegistryPackage(i) EXCEPT !.manifest_path = NoPath] :
            i \in {j \in Ids : j.name = <<"b">>}}

\* Metadata::run on the throwaway manifest: an error, or a snapshot of the
\* throwaway package and what the resolver chose.
Metadata_run_temp ==
  {[ok |-> FALSE, packages |-> <<>>]}
    \cup {[ok |-> TRUE, packages |-> <<TempPackage>> \o deps] :
            deps \in SeqsUpTo(Packages, MaxDeps)}

\* The search of fetch as it would be if it compared names alone.
find_package_by_name(packages, pkg_id) ==
  LET hits == {i \in 1..Len(packages) : packages[i].name = pkg_id.name}
  IN IF hits = {} THEN [some |-> FALSE, pkg |-> TempPackage]
     ELSE [some |-> TRUE,
           pkg |-> packages[CHOOSE i \in hits : \A j \in hits : i <= j]]

\* Iterator::find with the closure of fetch: the first match, if any.
find_package(packages, pkg_id) ==
  LET hits == {i \in 1..Len(packages) :
                 /\ packages[i].name = pkg_id.name
                 /\ packages[i].version = Version_fmt(pkg_id.version)}
  IN IF hits = {} THEN [some |-> FALSE, pkg |-> TempPackage]
     ELSE [some |-> TRUE,
           pkg |-> packages[CHOOSE i \in hits : \A j \in hits : i <= j]]

\* pkg_dir.
pkg_dir(pkg) ==
  LET par == parent(pkg.manifest_path)
  IN IF par.some
     THEN [ok |-> TRUE, dir |-> par.path, err |-> ""]
     ELSE [ok |-> FALSE, dir |-> NoPath, err |-> "bad manifest path"]

\* TempDir as it would be if fetch kept the directory (into_path).
TempDir_into_path(made, removeFailed) == made

\* The end of `dir` in fetch: TempDir's drop runs remove_dir_all on every way
\* out and discards its error.  TRUE when the directory is left behind.
TempDir_drop(made, removeFailed) == made /\ removeFailed

FetchOutcome(ok, dir, err, made, packages) ==
  {[ok |-> ok, dir |-> dir, err |-> err, made |-> made,
    removeFailed |-> rf, left |-> TempDir_drop(made, rf),
    packages |-> packages] :
      rf \in IF made THEN BOOLEAN ELSE {FALSE}}

FetchErr(err, made, packages) ==
  FetchOutcome(FALSE, NoPath, err, made, packages)

\* fetch.  Outcomes: the Result; made: the scratch directory was created;
\* removeFailed: the remove_dir_all of its drop failed; left: it is still
\* there on return; packages: the snapshot searched.
fetch(pkg_id) ==
  FetchErr("io error", FALSE, <<>>)
    \cup FetchErr("io error", TRUE, <<>>)
    \cup UNION {
      IF ~m.ok THEN FetchErr("cargo metadata failed", TRUE, <<>>)
      ELSE LET f == find_package(m.packages, pkg_id)
           IN IF ~f.some
              THEN FetchErr("can't find package", TRUE, m.packages)
              ELSE LET r == pkg_dir(f.pkg)
                   IN IF ~r.ok THEN FetchErr(r.err, TRUE, m.packages)
                      ELSE FetchOutcome(TRUE, r.dir, "", TRUE, m.packages)
      : m \in Metadata_run_temp}

\* has_diff_cmd as it would be if it looked at the launch alone.
has_diff_cmd_launched(probe) == probe # "unlaunched"

\* has_diff_cmd, on the outcome of `diff --version`: "unlaunched", or the
\* exit status.
has_diff_cmd(probe) ==
  IF probe = "unlaunched" THEN FALSE ELSE probe = "success"

\* ------------------------------------------------------------------------
\* State
\* ------------------------------------------------------------------------
Procs == {"p1", "p2"}

VARIABLES
  lockfile,   \* Cargo.lock
  lockcopy,   \* the backup file next to it
  dest,       \* the destination tree
  pc,         \* per invocation: position in the running operation
  guard,      \* per invocation: its LockfileGuard, NoGuard when none is alive
  locals,     \* per invocation: before_metadata, after_metadata, loop rest
  result,     \* per invocation: what the operation returned
  h,          \* per invocation: history of what happened, for the properties
  text,       \* a package specification given on the command line
  parsed,     \* text.parse::<PackageId>()
  shown,      \* its to_string()
  reparsed,   \* and that, parsed again
  args,       \* the arguments of diff
  tmp,        \* scratch directories of fetch still on disk
  out,        \* what has been written to the inherited standard output
  stderr,     \* what has been written to the standard error
  obs         \* what diff did, for the properties

fsvars == <<lockfile, lockcopy, dest>>

runvars == <<pc, guard, locals, result, h>>

idvars == <<text, parsed, shown, reparsed>>

diffvars == <<args, tmp, out, stderr, obs>>

vars == <<fsvars, runvars, idvars, diffvars>>

NoArgs ==
  [firstText |-> <<>>, secondText |-> <<>>, first |-> NoId, second |-> NoId,
   dest |-> None]

NoObs ==
  [destBefore |-> {},       \* the destination tree when diff started
   fetched |-> <<>>,        \* the Result of each fetch made, in order
   lastFetch |-> <<>>,      \* the snapshot the latest fetch searched
   diffRuns |-> 0,          \* launches of the diff collaborator
   exit |-> "",             \* its exit status
   launchFailed |-> FALSE,  \* the diff collaborator could not be launched
   probes |-> 0,            \* `diff --version` probes made
   probe |-> "",            \* the outcome of the probe
   ioFailed |-> FALSE]      \* a directory call failed on a free target

DiffIdle ==
  /\ args = NoArgs
  /\ tmp = 0
  /\ out = <<>>
  /\ stderr = <<>>
  /\ obs = NoObs

NoParse == [ok |-> FALSE, id |-> NoId, msg |-> <<>>]

IdIdle ==
  /\ text = <<>>
  /\ parsed = NoParse
  /\ shown = <<>>
  /\ reparsed = NoParse

NoLocals ==
  [before |-> <<>>, after |-> <<>>, todo |-> <<>>,
   first_src |-> NoPath, second_src |-> NoPath]

NoHist ==
  [steps |-> <<>>,          \* steps of run started so far, with their outcome
   startLock |-> NoFile,    \* the lock file when run was entered
   startCopy |-> NoFile,    \* the backup file when run was entered
   acquired |-> FALSE,      \* LockfileGuard::new returned a guard
   orig |-> <<>>,           \* the lock file's contents at that moment
   copyAtNew |-> NoFile,    \* the backup file before LockfileGuard::new
   updated |-> FALSE,       \* the update collaborator ran
   updWrote |-> <<>>,       \* the lock file's contents when it exited
   restores |-> 0,          \* explicit restore_lockfile calls made
   firstOk |-> FALSE,       \* the first explicit restore returned Ok
   writeOk |-> FALSE,       \* a restore's write to the lock file completed
   writeFailed |-> FALSE,   \* a restore's write to the lock file failed
   lastWrites |-> 0,        \* file operations of the latest restore or drop
   lastRemoves |-> 0,
   lastOk |-> TRUE,         \* Result of the latest explicit restore call
   dropActive |-> FALSE,    \* the guard was dropped while not yet restored
   dropFailed |-> FALSE]    \* the automatic restore failed (and was dropped)

\* The file operations of one restore or drop outcome, noted in the history.
Note(hp, o) ==
  [hp EXCEPT !.writeOk = @ \/ o.writeOk,
             !.writeFailed = @ \/ (o.writes > 0 /\ ~o.writeOk),
             !.lastWrites = o.writes,
             !.lastRemoves = o.removes]

Step(hp, name, ok) == [hp EXCEPT !.steps = Append(@, <<name, ok>>)]

\* ------------------------------------------------------------------------
\* UpdateDiff::run, one action per statement
\* ------------------------------------------------------------------------
\* run as it would be without the `?` on the first query.
BeforeMetadata_unchecked(p) ==
  /\ pc[p] = "start"
  /\ \E ok \in BOOLEAN :
       h' = [h EXCEPT ![p] =
               [Step(@, "before_metadata", ok) EXCEPT
                  !.startLock = lockfile, !.startCopy = lockcopy]]
  /\ locals' = [locals EXCEPT ![p].before = Snapshot(lockfile)]
  /\ pc' = [pc EXCEPT ![p] = "new"]
  /\ UNCHANGED <<lockfile, lockcopy, dest, guard, result, idvars, diffvars>>

\* let before_metadata = Metadata { .. }.run()?;
BeforeMetadata(p) ==
  /\ pc[p] = "start"
  /\ \E ok \in BOOLEAN :
       /\ h' = [h EXCEPT ![p] =
                  [Step(@, "before_metadata", ok) EXCEPT
                     !.startLock = lockfile, !.startCopy = lockcopy]]
       /\ IF ok
          THEN /\ locals' = [locals EXCEPT ![p].before = Snapshot(lockfile)]
               /\ pc' = [pc EXCEPT ![p] = "new"]
               /\ UNCHANGED result
          ELSE /\ result' = [result EXCEPT ![p] = "cargo metadata failed"]
               /\ pc' = [pc EXCEPT ![p] = "done"]
               /\ UNCHANGED locals
  /\ UNCHANGED <<lockfile, lockcopy, dest, guard, idvars, diffvars>>

\* run as it would be without the guard: the update follows the first query.
New_skipped(p) ==
  /\ pc[p] = "new"
  /\ pc' = [pc EXCEPT ![p] = "update"]
  /\ UNCHANGED <<lockfile, lockcopy, dest, guard, locals, result, h, idvars,
                 diffvars>>

\* let mut lockfile_guard = LockfileGuard::new(lockfile)?;
New(p) ==
  /\ pc[p] = "new"
  /\ \E o \in LockfileGuard_new(lockfile, lockcopy) :
       /\ lockcopy' = o.copy
       /\ guard' = [guard EXCEPT ![p] = o.guard]
       /\ h' = [h EXCEPT ![p] =
                  [Step(@, "new", o.ok) EXCEPT !.acquired = o.ok,
                                               !.orig = lockfile.data,
                                               !.copyAtNew = lockcopy]]
       /\ IF o.ok
          THEN /\ pc' = [pc EXCEPT ![p] = "update"]
               /\ UNCHANGED result
          ELSE /\ result' = [result EXCEPT ![p] = "io error"]
               /\ pc' = [pc EXCEPT ![p] = "done"]
  /\ UNCHANGED <<lockfile, dest, locals, idvars, diffvars>>

\* run as it would be without the check of the collaborator's status.
Update_unchecked(p) ==
  /\ pc[p] = "update"
  /\ \/ /\ h' = [h EXCEPT ![p] = Step(@, "update", FALSE)]
        /\ result' = [result EXCEPT ![p] = "io error"]
        /\ pc' = [pc EXCEPT ![p] = "drop"]
        /\ UNCHANGED lockfile
     \/ \E c \in Contents, success \in BOOLEAN :
          /\ lockfile' = File(c)
          /\ h' = [h EXCEPT ![p] =
                     [Step(@, "update", success) EXCEPT !.updated = TRUE,
                                                        !.updWrote = c]]
          /\ pc' = [pc EXCEPT ![p] = "after"]
          /\ UNCHANGED result
  /\ UNCHANGED <<lockcopy, dest, guard, locals, idvars, diffvars>>

\* Command::new("cargo").arg("update")...status()?  and the status check.
\* The collaborator, once launched, leaves any contents in the lock file.
Update(p) ==
  /\ pc[p] = "update"
  /\ \/ /\ h' = [h EXCEPT ![p] = Step(@, "update", FALSE)]
        /\ result' = [result EXCEPT ![p] = "io error"]
        /\ pc' = [pc EXCEPT ![p] = "drop"]
        /\ UNCHANGED lockfile
     \/ \E c \in Contents, success \in BOOLEAN :
          /\ lockfile' = File(c)
          /\ h' = [h EXCEPT ![p] =
                     [Step(@, "update", success) EXCEPT !.updated = TRUE,
                                                        !.updWrote = c]]
          /\ IF success
             THEN /\ pc' = [pc EXCEPT ![p] = "after"]
                  /\ UNCHANGED result
             ELSE /\ result' = [result EXCEPT ![p] =
                                  "running cargo update failed"]
                  /\ pc' = [pc EXCEPT ![p] = "drop"]
  /\ UNCHANGED <<lockcopy, dest, guard, locals, idvars, diffvars>>

\* let after_metadata = Metadata { .. }.run()?;  then metadata_diff(..).
AfterMetadata(p) ==
  /\ pc[p] = "after"
  /\ \E ok \in BOOLEAN :
       IF ok
       THEN /\ locals' = [locals EXCEPT
                 ![p].after = Snapshot(lockfile),
                 ![p].todo = metadata_diff(locals[p].before,
                                           Snapshot(lockfile))]
            /\ h' = [h EXCEPT ![p] =
                       Step(Step(@, "after_metadata", TRUE), "diff", TRUE)]
            /\ pc' = [pc EXCEPT ![p] = "dump"]
            /\ UNCHANGED result
       ELSE /\ h' = [h EXCEPT ![p] = Step(@, "after_metadata", FALSE)]
            /\ result' = [result EXCEPT ![p] = "cargo metadata failed"]
            /\ pc' = [pc EXCEPT ![p] = "drop"]
            /\ UNCHANGED locals
  /\ UNCHANGED <<lockfile, lockcopy, dest, guard, idvars, diffvars>>

\* for pdiff in metadata_diff(..) { pdiff.dump_to(&self.dest)?; }
Dump(p) ==
  /\ pc[p] = "dump"
  /\ IF locals[p].todo = <<>>
     THEN /\ pc' = [pc EXCEPT ![p] = "restore"]
          /\ UNCHANGED <<dest, locals, result, h>>
     ELSE \E o \in dump_to(Head(locals[p].todo), dest) :
            /\ dest' = o.dest
            /\ h' = [h EXCEPT ![p] = Step(@, "dump", o.ok)]
            /\ IF o.ok
               THEN /\ locals' = [locals EXCEPT ![p].todo = Tail(@)]
                    /\ UNCHANGED <<pc, result>>
               ELSE /\ result' = [result EXCEPT ![p] = "io error"]
                    /\ pc' = [pc EXCEPT ![p] = "drop"]
                    /\ UNCHANGED locals
  /\ UNCHANGED <<lockfile, lockcopy, guard, idvars, diffvars>>

\* lockfile_guard.restore_lockfile()?; Ok(())
Restore(p) ==
  /\ pc[p] = "restore"
  /\ \E o \in restore_lockfile(guard[p], lockfile, lockcopy) :
       /\ lockfile' = o.lock
       /\ lockcopy' = o.copy
       /\ guard' = [guard EXCEPT ![p] = o.guard]
       /\ result' = [result EXCEPT ![p] = IF o.ok THEN "ok" ELSE "io error"]
       /\ h' = [h EXCEPT ![p] =
                  [Note(Step(@, "restore", o.ok), o) EXCEPT
                     !.restores = @ + 1,
                     !.firstOk = IF h[p].restores = 0 THEN o.ok ELSE @,
                     !.lastOk = o.ok]]
  /\ pc' = [pc EXCEPT ![p] = "drop"]
  /\ UNCHANGED <<dest, locals, idvars, diffvars>>

\* The guard goes out of scope when run returns, on every path after new.
\* drop returns nothing; an error escaping it could only be a panic.
Drop(p) ==
  /\ pc[p] = "drop"
  /\ \E o \in drop(guard[p], lockfile, lockcopy) :
       /\ lockfile' = o.lock
       /\ lockcopy' = o.copy
       /\ guard' = [guard EXCEPT ![p] = o.guard]
       /\ result' = [result EXCEPT ![p] = IF o.ok THEN @ ELSE "panic"]
       /\ h' = [h EXCEPT ![p] =
                  [Note(Step(@, "drop", ~o.failed), o) EXCEPT
                     !.dropActive = ~guard[p].restored,
                     !.dropFailed = o.failed]]
  /\ pc' = [pc EXCEPT ![p] = "done"]
  /\ UNCHANGED <<dest, locals, idvars, diffvars>>

UpdateDiff_run(p) ==
  \/ BeforeMetadata(p)
  \/ New(p)
  \/ Update(p)
  \/ AfterMetadata(p)
  \/ Dump(p)
  \/ Restore(p)
  \/ Drop(p)

\* One invocation of update-diff in a project whose lock file holds any
\* contents; a backup file may be left over from an earlier run.
Init ==
  /\ lockfile \in {File(c) : c \in Contents}
  /\ lockcopy \in {NoFile} \cup {File(c) : c \in Contents}
  /\ dest = {}
  /\ pc = [p \in Procs |-> IF p = "p1" THEN "start" ELSE "idle"]
  /\ guard = [p \in Procs |-> NoGuard]
  /\ locals = [p \in Procs |-> NoLocals]
  /\ result = [p \in Procs |-> "none"]
  /\ h = [p \in Procs |-> NoHist]
  /\ IdIdle
  /\ DiffIdle

Next == UpdateDiff_run("p1")

Spec == Init /\ [][Next]_vars

\* ------------------------------------------------------------------------
\* Two invocations of update-diff in the same project.  Nothing in run or
\* in LockfileGuard locks the project, so their statements interleave
\* freely; each file call is taken as one step.  The project starts with a
\* lock file of one byte and no backup file.
\* ------------------------------------------------------------------------
InitRace ==
  /\ lockfile = File(<<0>>)
  /\ lockcopy = NoFile
  /\ dest = {}
  /\ pc = [p \in Procs |-> "start"]
  /\ guard = [p \in Procs |-> NoGuard]
  /\ locals = [p \in Procs |-> NoLocals]
  /\ result = [p \in Procs |-> "none"]
  /\ h = [p \in Procs |-> NoHist]
  /\ IdIdle
  /\ DiffIdle

NextRace == \E p \in Procs : UpdateDiff_run(p)

SpecRace == InitRace /\ [][NextRace]_vars

\* ------------------------------------------------------------------------
\* LockfileGuard used through its methods alone: new, then any number of
\* restore_lockfile calls and writes to the lock file by others, then drop.
\* ------------------------------------------------------------------------
\* Explicit restore_lockfile calls considered on one guard.
MaxRestores == 2

GNew(p) ==
  /\ pc[p] = "g_new"
  /\ \E o \in LockfileGuard_new(lockfile, lockcopy) :
       /\ lockcopy' = o.copy
       /\ guard' = [guard EXCEPT ![p] = o.guard]
       /\ h' = [h EXCEPT ![p] =
                  [Step(@, "new", o.ok) EXCEPT !.acquired = o.ok,
                                               !.orig = lockfile.data,
                                               !.copyAtNew = lockcopy]]
       /\ pc' = [pc EXCEPT ![p] = IF o.ok THEN "g_held" ELSE "g_failed"]
       /\ result' = [result EXCEPT ![p] = IF o.ok THEN @ ELSE "io error"]
  /\ UNCHANGED <<lockfile, dest, locals, idvars, diffvars>>

GExternalWrite(p) ==
  /\ pc[p] = "g_held"
  /\ \E c \in Contents :
       /\ File(c) # lockfile
       /\ lockfile' = File(c)
       /\ h' = [h EXCEPT ![p].updated = TRUE, ![p].updWrote = c]
  /\ UNCHANGED <<lockcopy, dest, pc, guard, locals, result, idvars, diffvars>>

GRestore(p) ==
  /\ pc[p] = "g_held"
  /\ h[p].restores < MaxRestores
  /\ \E o \in restore_lockfile(guard[p], lockfile, lockcopy) :
       /\ lockfile' = o.lock
       /\ lockcopy' = o.copy
       /\ guard' = [guard EXCEPT ![p] = o.guard]
       /\ result' = [result EXCEPT ![p] = IF o.ok THEN "ok" ELSE "io error"]
       /\ h' = [h EXCEPT ![p] =
                  [Note(Step(@, "restore", o.ok), o) EXCEPT
                     !.restores = @ + 1,
                     !.firstOk = IF h[p].restores = 0 THEN o.ok ELSE @,
                     !.lastOk = o.ok]]
  /\ UNCHANGED <<dest, pc, locals, idvars, diffvars>>

GDrop(p) ==
  /\ pc[p] = "g_held"
  /\ \E o \in drop(guard[p], lockfile, lockcopy) :
       /\ lockfile' = o.lock
       /\ lockcopy' = o.copy
       /\ guard' = [guard EXCEPT ![p] = o.guard]
       /\ result' = [result EXCEPT ![p] = IF o.ok THEN @ ELSE "panic"]
       /\ h' = [h EXCEPT ![p] =
                  [Note(Step(@, "drop", ~o.failed), o) EXCEPT
                     !.dropActive = ~guard[p].restored,
                     !.dropFailed = o.failed]]
  /\ pc' = [pc EXCEPT ![p] = "g_dropped"]
  /\ UNCHANGED <<dest, locals, idvars, diffvars>>

InitGuard ==
  /\ lockfile \in {File(c) : c \in Contents}
  /\ lockcopy \in {NoFile} \cup {File(c) : c \in Contents}
  /\ dest = {}
  /\ pc = [p \in Procs |-> IF p = "p1" THEN "g_new" ELSE "idle"]
  /\ guard = [p \in Procs |-> NoGuard]
  /\ locals = [p \in Procs |-> NoLocals]
  /\ result = [p \in Procs |-> "none"]
  /\ h = [p \in Procs |-> NoHist]
  /\ IdIdle
  /\ DiffIdle

NextGuard ==
  \/ GNew("p1")
  \/ GExternalWrite("p1")
  \/ GRestore("p1")
  \/ GDrop("p1")

SpecGuard == InitGuard /\ [][NextGuard]_vars

\* ------------------------------------------------------------------------
\* Package specifications: parsed, printed, parsed again
\* ------------------------------------------------------------------------
\* Longest package specification considered, in characters.
MaxTextLen == 7

Chars == {"a", ":", ".", "0", "1"}

Parse(p) ==
  /\ pc[p] = "id_start"
  /\ parsed' = PackageId_from_str(text)
  /\ pc' = [pc EXCEPT ![p] = "id_parsed"]
  /\ UNCHANGED <<diffvars, fsvars, guard, locals, result, h, text, shown,
                 reparsed>>

Show(p) ==
  /\ pc[p] = "id_parsed"
  /\ parsed.ok
  /\ shown' = PackageId_fmt(parsed.id)
  /\ pc' = [pc EXCEPT ![p] = "id_shown"]
  /\ UNCHANGED <<diffvars, fsvars, guard, locals, result, h, text, parsed,
                 reparsed>>

Reparse(p) ==
  /\ pc[p] = "id_shown"
  /\ reparsed' = PackageId_from_str(shown)
  /\ pc' = [pc EXCEPT ![p] = "id_reparsed"]
  /\ UNCHANGED <<diffvars, fsvars, guard, locals, result, h, text, parsed,
                 shown>>

InitParse ==
  /\ lockfile = File(<<>>)
  /\ lockcopy = NoFile
  /\ dest = {}
  /\ pc = [p \in Procs |-> IF p = "p1" THEN "id_start" ELSE "idle"]
  /\ guard = [p \in Procs |-> NoGuard]
  /\ locals = [p \in Procs |-> NoLocals]
  /\ result = [p \in Procs |-> "none"]
  /\ h = [p \in Procs |-> NoHist]
  /\ text \in SeqsUpTo(Chars, MaxTextLen)
  /\ parsed = NoParse
  /\ shown = <<>>
  /\ reparsed = NoParse
  /\ DiffIdle

NextParse == Parse("p1") \/ Show("p1") \/ Reparse("p1")

SpecParse == InitParse /\ [][NextParse]_vars

\* ------------------------------------------------------------------------
\* Diff::run, one action per statement
\* ------------------------------------------------------------------------
Fetched(o) ==
  [ok |-> o.ok, dir |-> o.dir, err |-> o.err, made |-> o.made,
   removeFailed |-> o.removeFailed, left |-> o.left]

\* let first_src = fetch(&self.first)?;
FetchFirst(p) ==
  /\ pc[p] = "d_fetch1"
  /\ \E o \in fetch(args.first) :
       /\ tmp' = tmp + (IF o.left THEN 1 ELSE 0)
       /\ obs' = [obs EXCEPT !.fetched = Append(@, Fetched(o)),
                             !.lastFetch = o.packages]
       /\ IF o.ok
          THEN /\ locals' = [locals EXCEPT ![p].first_src = o.dir]
               /\ pc' = [pc EXCEPT ![p] = "d_fetch2"]
               /\ UNCHANGED result
          ELSE /\ result' = [result EXCEPT ![p] = o.err]
               /\ pc' = [pc EXCEPT ![p] = "done"]
               /\ UNCHANGED locals
  /\ UNCHANGED <<fsvars, guard, h, idvars, args, out,
                 stderr>>

\* `if let Some(dir) = self.dest` as it would be with the test inverted.
AfterFetches_inverted(a) == IF a.dest.some THEN "d_diff" ELSE "d_mkdir"

\* if let Some(dir) = self.dest { .. } else { .. }
AfterFetches(a) == IF a.dest.some THEN "d_mkdir" ELSE "d_diff"

\* let second_src = fetch(&self.second)?;
FetchSecond(p) ==
  /\ pc[p] = "d_fetch2"
  /\ \E o \in fetch(args.second) :
       /\ tmp' = tmp + (IF o.left THEN 1 ELSE 0)
       /\ obs' = [obs EXCEPT !.fetched = Append(@, Fetched(o)),
                             !.lastFetch = o.packages]
       /\ IF o.ok
          THEN /\ locals' = [locals EXCEPT ![p].second_src = o.dir]
               /\ pc' = [pc EXCEPT ![p] = AfterFetches(args)]
               /\ UNCHANGED result
          ELSE /\ result' = [result EXCEPT ![p] = o.err]
               /\ pc' = [pc EXCEPT ![p] = "done"]
               /\ UNCHANGED locals
  /\ UNCHANGED <<lockfile, lockcopy, dest, guard, h, idvars, args, out,
                 stderr>>

\* fs::create_dir_all(&dir)?;
MkDir(p) ==
  /\ pc[p] = "d_mkdir"
  /\ \E o \in create_dir_all(dest, DestRoot) :
       /\ dest' = o.dest
       /\ obs' = [obs EXCEPT !.ioFailed = @ \/ ~o.ok]
       /\ IF o.ok
          THEN /\ pc' = [pc EXCEPT ![p] = "d_copy1"]
               /\ UNCHANGED result
          ELSE /\ result' = [result EXCEPT ![p] = "io error"]
               /\ pc' = [pc EXCEPT ![p] = "done"]
  /\ UNCHANGED <<lockfile, lockcopy, guard, locals, h, idvars, args, tmp,
                 out, stderr>>

\* dir.join(id.to_string()) as it would be with the name alone.
DestOf_name(dir, id) == join(dir, id.name)

\* dir.join(self.first.to_string())
DestOf(dir, id) == join(dir, PackageId_fmt(id))

\* copy_dir(&first_src, &dir.join(self.first.to_string()))?;
CopyFirst(p) ==
  /\ pc[p] = "d_copy1"
  /\ \E o \in copy_dir(dest, locals[p].first_src,
                       DestOf(args.dest.path, args.first)) :
       /\ dest' = o.dest
       /\ obs' = [obs EXCEPT !.ioFailed =
                    @ \/ (~o.ok /\ ~Exists(dest, DestOf(args.dest.path,
                                                        args.first)))]
       /\ IF o.ok
          THEN /\ pc' = [pc EXCEPT ![p] = "d_copy2"]
               /\ UNCHANGED result
          ELSE /\ result' = [result EXCEPT ![p] = "io error"]
               /\ pc' = [pc EXCEPT ![p] = "done"]
  /\ UNCHANGED <<lockfile, lockcopy, guard, locals, h, idvars, args, tmp,
                 out, stderr>>

\* copy_dir(&second_src, &dir.join(self.second.to_string()))?;  Ok(())
CopySecond(p) ==
  /\ pc[p] = "d_copy2"
  /\ \E o \in copy_dir(dest, locals[p].second_src,
                       DestOf(args.dest.path, args.second)) :
       /\ dest' = o.dest
       /\ obs' = [obs EXCEPT !.ioFailed =
                    @ \/ (~o.ok /\ ~Exists(dest, DestOf(args.dest.path,
                                                        args.second)))]
       /\ result' = [result EXCEPT ![p] = IF o.ok THEN "ok" ELSE "io error"]
  /\ pc' = [pc EXCEPT ![p] = "done"]
  /\ UNCHANGED <<lockfile, lockcopy, guard, locals, h, idvars, args, tmp,
                 out, stderr>>

ExitStatuses == {"success", "differ", "trouble"}

\* Diff::run as it would be if it took a non-zero status for a failure.
diff_result_checked(status) ==
  IF status = "success" THEN "ok" ELSE "diff failed"

\* `diff_status?; .. Ok(())` once the collaborator ran: the ExitStatus is
\* dropped unread.
diff_result(status) == "ok"

\* The else branch: Command::new("diff")...status(), the probe when it could
\* not be launched, `diff_status?`, Ok(()).
RunDiff(p) ==
  /\ pc[p] = "d_diff"
  /\ \/ \E status \in ExitStatuses :
          /\ out' = Append(out, "diff -r")
          /\ obs' = [obs EXCEPT !.diffRuns = @ + 1, !.exit = status]
          /\ result' = [result EXCEPT ![p] = diff_result(status)]
     \/ \E probe \in {"unlaunched"} \cup ExitStatuses :
          /\ obs' = [obs EXCEPT !.launchFailed = TRUE, !.probes = @ + 1,
                                !.probe = probe]
          /\ result' = [result EXCEPT ![p] =
               IF ~has_diff_cmd(probe) THEN "no suitable diff command"
               ELSE "io error"]
          /\ UNCHANGED out
  /\ pc' = [pc EXCEPT ![p] = "done"]
  /\ UNCHANGED <<fsvars, guard, locals, h, idvars, args, tmp, stderr>>

Diff_run(p) ==
  \/ FetchFirst(p)
  \/ FetchSecond(p)
  \/ MkDir(p)
  \/ CopyFirst(p)
  \/ CopySecond(p)
  \/ RunDiff(p)

\* The destination may not exist yet, be empty, or hold an entry of an
\* earlier run.
DestTrees ==
  {{}, {<<DestRoot, Dir>>}}
    \cup {{<<DestRoot, Dir>>, <<join(DestRoot, t), Old>>} : t \in DiffTexts}

InitDiff ==
  /\ lockfile = File(<<>>)
  /\ lockcopy = NoFile
  /\ dest \in DestTrees
  /\ pc = [p \in Procs |-> IF p = "p1" THEN "d_fetch1" ELSE "idle"]
  /\ guard = [p \in Procs |-> NoGuard]
  /\ locals = [p \in Procs |-> NoLocals]
  /\ result = [p \in Procs |-> "none"]
  /\ h = [p \in Procs |-> NoHist]
  /\ IdIdle
  /\ \E t1 \in DiffTexts, t2 \in DiffTexts, d \in {None, Some(DestRoot)} :
       args = [firstText |-> t1, secondText |-> t2,
               first |-> PackageId_from_str(t1).id,
               second |-> PackageId_from_str(t2).id,
               dest |-> d]
  /\ tmp = 0
  /\ out = <<>>
  /\ stderr = <<>>
  /\ obs = [NoObs EXCEPT !.destBefore = dest]

NextDiff == Diff_run("p1")

SpecDiff == InitDiff /\ [][NextDiff]_vars

\* ------------------------------------------------------------------------
\* Current::run, one action per statement and per turn of the loop
\* ------------------------------------------------------------------------
\* Metadata::run on the project: an error, or a snapshot that lists the
\* project's package and up to MaxDeps of the others, in any order; package
\* ids are unique in a snapshot.
Metadata_run_project ==
  {[ok |-> FALSE, packages |-> <<>>]}
    \cup {[ok |-> TRUE, packages |-> deps] :
            deps \in {d \in SeqsUpTo(Packages \cup {ProjectPackage},
                                      MaxDeps + 1) :
                        /\ \E i \in 1..Len(d) : d[i] = ProjectPackage
                        /\ \A i, j \in 1..Len(d) :
                             d[i].id = d[j].id => i = j}}

\* str::contains on token sequences.
str_contains(s, pat) ==
  \E i \in 0..(Len(s) - Len(pat)) : SubSeq(s, i + 1, i + Len(pat)) = pat

\* The test of the loop as it would be if it took every package.
is_cratesio_dep_any(pkg) == TRUE

\* let is_cratesio_dep = pkg.id.contains("crates.io-index");
is_cratesio_dep(pkg) == str_contains(pkg.id, <<"crates.io-index">>)

\* self.dest.join(format!("{}:{}", pkg.name, pkg.version))
Current_dst(dir, pkg) == join(dir, pkg.name \o <<":">> \o pkg.version)

\* eprintln!("Skipping package `{}`: not a crates.io dependency", pkg.name)
Skipping(pkg) == <<"Skipping package", pkg.name, "not a crates.io dependency">>

\* let metadata = Metadata { manifest_path: None }.run()?;
CurrentMetadata(p) ==
  /\ pc[p] = "c_meta"
  /\ \E m \in Metadata_run_project :
       /\ h' = [h EXCEPT ![p] = Step(@, "metadata", m.ok)]
       /\ IF m.ok
          THEN /\ locals' = [locals EXCEPT ![p].before = m.packages,
                                           ![p].todo = m.packages]
               /\ pc' = [pc EXCEPT ![p] = "c_mkdir"]
               /\ UNCHANGED result
          ELSE /\ result' = [result EXCEPT ![p] = "cargo metadata failed"]
               /\ pc' = [pc EXCEPT ![p] = "done"]
               /\ UNCHANGED locals
  /\ UNCHANGED <<fsvars, guard, idvars, diffvars>>

\* fs::create_dir_all(&self.dest)?;
CurrentMkDir(p) ==
  /\ pc[p] = "c_mkdir"
  /\ \E o \in create_dir_all(dest, DestRoot) :
       /\ dest' = o.dest
       /\ obs' = [obs EXCEPT !.ioFailed = @ \/ ~o.ok]
       /\ h' = [h EXCEPT ![p] = Step(@, "create_dir_all", o.ok)]
       /\ IF o.ok
          THEN /\ pc' = [pc EXCEPT ![p] = "c_loop"]
               /\ UNCHANGED result
          ELSE /\ result' = [result EXCEPT ![p] = "io error"]
               /\ pc' = [pc EXCEPT ![p] = "done"]
  /\ UNCHANGED <<lockfile, lockcopy, guard, locals, idvars, args, tmp, out,
                 stderr>>

\* One turn of `for pkg in metadata.packages.iter()`, or its end and Ok(()).
\* A turn that fails leaves its package at the head of todo.
CurrentPackage(p) ==
  /\ pc[p] = "c_loop"
  /\ IF locals[p].todo = <<>>
     THEN /\ result' = [result EXCEPT ![p] = "ok"]
          /\ pc' = [pc EXCEPT ![p] = "done"]
          /\ UNCHANGED <<dest, locals, h, stderr, obs>>
     ELSE LET pkg == Head(locals[p].todo)
              src == pkg_dir(pkg)
              dst == Current_dst(DestRoot, pkg)
          IN IF ~is_cratesio_dep(pkg)
             THEN /\ stderr' = Append(stderr, Skipping(pkg))
                  /\ locals' = [locals EXCEPT ![p].todo = Tail(@)]
                  /\ h' = [h EXCEPT ![p] = Step(@, "skip", TRUE)]
                  /\ UNCHANGED <<dest, pc, result, obs>>
             ELSE IF ~src.ok
             THEN /\ result' = [result EXCEPT ![p] = src.err]
                  /\ pc' = [pc EXCEPT ![p] = "done"]
                  /\ h' = [h EXCEPT ![p] = Step(@, "pkg_dir", FALSE)]
                  /\ UNCHANGED <<dest, locals, stderr, obs>>
             ELSE \E o \in copy_dir(dest, src.dir, dst) :
                    /\ dest' = o.dest
                    /\ obs' = [obs EXCEPT !.ioFailed =
                                 @ \/ (~o.ok /\ ~Exists(dest, dst))]
                    /\ h' = [h EXCEPT ![p] = Step(@, "copy_dir", o.ok)]
                    /\ UNCHANGED stderr
                    /\ IF o.ok
                       THEN /\ locals' = [locals EXCEPT ![p].todo = Tail(@)]
                            /\ UNCHANGED <<pc, result>>
                       ELSE /\ result' = [result EXCEPT ![p] = "io error"]
                            /\ pc' = [pc EXCEPT ![p] = "done"]
                            /\ UNCHANGED locals
  /\ UNCHANGED <<lockfile, lockcopy, guard, idvars, args, tmp, out>>

Current_run(p) ==
  \/ CurrentMetadata(p)
  \/ CurrentMkDir(p)
  \/ CurrentPackage(p)

\* `current` given a destination that may hold a package's directory from an
\* earlier run.
InitCurrent ==
  /\ lockfile = File(<<>>)
  /\ lockcopy = NoFile
  /\ dest \in DestTrees
  /\ pc = [p \in Procs |-> IF p = "p1" THEN "c_meta" ELSE "idle"]
  /\ guard = [p \in Procs |-> NoGuard]
  /\ locals = [p \in Procs |-> NoLocals]
  /\ result = [p \in Procs |-> "none"]
  /\ h = [p \in Procs |-> NoHist]
  /\ IdIdle
  /\ args = NoArgs
  /\ tmp = 0
  /\ out = <<>>
  /\ stderr = <<>>
  /\ obs = [NoObs EXCEPT !.destBefore = dest]

NextCurrent == Current_run("p1")

SpecCurrent == InitCurrent /\ [][NextCurrent]_vars

\* ------------------------------------------------------------------------
\* metadata_diff on two resolved snapshots
\* ------------------------------------------------------------------------
\* The packages of a snapshot, as metadata_diff is given them.
Snapshots == SeqsUpTo(Packages, MaxDeps)

\* metadata_diff(&before_metadata, &after_metadata), collected.
MetadataDiff(p) ==
  /\ pc[p] = "m_start"
  /\ locals' = [locals EXCEPT
       ![p].todo = metadata_diff(locals[p].before, locals[p].after)]
  /\ result' = [result EXCEPT ![p] = "ok"]
  /\ pc' = [pc EXCEPT ![p] = "done"]
  /\ UNCHANGED <<fsvars, guard, h, idvars, diffvars>>

InitMetaDiff ==
  /\ lockfile = File(<<>>)
  /\ lockcopy = NoFile
  /\ dest = {}
  /\ pc = [p \in Procs |-> IF p = "p1" THEN "m_start" ELSE "idle"]
  /\ guard = [p \in Procs |-> NoGuard]
  /\ \E b \in Snapshots, a \in Snapshots :
       locals = [p \in Procs |->
                   IF p = "p1" THEN [NoLocals EXCEPT !.before = b, !.after = a]
                   ELSE NoLocals]
  /\ result = [p \in Procs |-> "none"]
  /\ h = [p \in Procs |-> NoHist]
  /\ IdIdle
  /\ DiffIdle

NextMetaDiff == MetadataDiff("p1")

SpecMetaDiff == InitMetaDiff /\ [][NextMetaDiff]_vars

\* ------------------------------------------------------------------------
\* Properties of update-diff and of the guard
\* ------------------------------------------------------------------------
H1 == h["p1"]

Returned == pc["p1"] = "done"

\* C1, as stated: whenever UpdateDiff returns after having acquired the
\* guard, the lock file holds exactly the contents it had at acquisition.
C1_AlwaysRestored ==
  (Returned /\ H1.acquired) => lockfile = File(H1.orig)

\* C1, amended: whenever UpdateDiff returns after having acquired the guard,
\* the lock file holds exactly the contents it had at acquisition, whatever
\* step failed and whatever the update collaborator wrote, unless the write
\* of the restore (explicit or automatic) itself failed.
C1_RestoredUnlessWriteFailed ==
  (Returned /\ H1.acquired) => (lockfile = File(H1.orig) \/ H1.writeFailed)

\* A run in which the collaborator changed the lock file and exited non-zero,
\* and the lock file is back to its contents at acquisition on return.
C1_Witness ==
  /\ Returned
  /\ H1.acquired
  /\ result["p1"] = "running cargo update failed"
  /\ H1.updWrote # H1.orig
  /\ lockfile = File(H1.orig)

\* C2, as stated: after a run in which every step succeeded the lock file
\* holds what the update collaborator wrote and the backup file is gone.
C2_ReflectsNewResolution ==
  (Returned /\ result["p1"] = "ok") =>
    (lockfile = File(H1.updWrote) /\ ~lockcopy.exists)

\* C2, amended: after a run in which every step succeeded the lock file holds
\* the contents it had at acquisition (not what the update collaborator
\* wrote) and the backup file is gone.
C2_SuccessRestoresOriginal ==
  (Returned /\ result["p1"] = "ok") =>
    (lockfile = File(H1.orig) /\ ~lockcopy.exists)

C2_Witness ==
  /\ Returned
  /\ result["p1"] = "ok"
  /\ H1.updated
  /\ H1.updWrote # H1.orig
  /\ ~lockcopy.exists

\* C3: a second restore_lockfile call on a guard whose first call returned Ok
\* returns Ok, writes nothing to the lock file and does not call remove_file.
C3_SecondRestoreNoOp ==
  (pc["p1"] = "g_held" /\ H1.restores >= 2 /\ H1.firstOk) =>
    (H1.lastOk /\ H1.lastWrites = 0 /\ H1.lastRemoves = 0)

\* C4: when the guard is dropped while not yet restored, after the lock file
\* was overwritten, nothing escapes the drop (the result of run stays the
\* failing step's), and unless the automatic restore failed the lock file
\* holds the contents read at acquisition and the backup file is gone.
C4_DropRestores ==
  (Returned /\ H1.dropActive) =>
    /\ result["p1"] \in {"io error", "running cargo update failed",
                        "cargo metadata failed"}
    /\ ~H1.dropFailed => (lockfile = File(H1.orig) /\ ~lockcopy.exists)

C4_Witness ==
  /\ Returned
  /\ H1.dropActive
  /\ H1.updated
  /\ H1.updWrote # H1.orig
  /\ ~H1.dropFailed
  /\ lockfile = File(H1.orig)

\* The other case of C4: the automatic restore failed and run still returned
\* the failing step's error.
C4_WitnessSuppressed ==
  Returned /\ H1.dropActive /\ H1.dropFailed /\ lockfile # File(H1.orig)

\* C5: when LockfileGuard::new fails there is no guard, no restore ever runs,
\* and the lock file, the backup path and the destination are as before.
C5_FailedNewChangesNothing ==
  (Returned /\ H1.steps # <<>> /\ H1.steps[Len(H1.steps)] = <<"new", FALSE>>)
    => /\ guard["p1"] = NoGuard
       /\ ~H1.writeOk /\ ~H1.writeFailed
       /\ lockfile = File(H1.orig)
       /\ lockcopy = H1.copyAtNew
       /\ dest = {}

\* C6: once a guard has been acquired, the backup file is missing only if a
\* restore's write of the original contents completed; a restore whose write
\* failed leaves the backup file in place.
C6_BackupRemovedOnlyAfterWrite ==
  H1.acquired =>
    /\ ~lockcopy.exists => H1.writeOk
    /\ H1.writeFailed => lockcopy.exists

C6_Witness ==
  H1.acquired /\ ~lockcopy.exists /\ H1.writeOk /\ H1.dropActive

\* A restore whose write failed, with the backup file still there.
C6_WitnessWriteFailed ==
  H1.acquired /\ H1.writeFailed /\ lockcopy.exists /\ Returned

\* C7: the steps of run happen in the order before query, new, update, after
\* query, diff, dumps, restore, each after the previous one succeeded; the
\* lock file changes, and the update collaborator runs, only while this run
\* holds a guard, and the collaborator only while the guard is not restored.
RunOrder ==
  <<"before_metadata", "new", "update", "after_metadata", "diff", "restore">>

Names(st) == [i \in 1..Len(st) |-> st[i][1]]

IsPrefix(a, b) ==
  Len(a) <= Len(b) /\ \A i \in 1..Len(a) : a[i] = b[i]

Body(st) == SelectSeq(st, LAMBDA e : e[1] \notin {"dump", "drop"})

C7_StepsInOrder ==
  LET st == H1.steps
      b == Body(st)
  IN /\ IsPrefix(Names(b), RunOrder)
     /\ \A i \in 1..(Len(b) - 1) : b[i][2]
     /\ \A i \in 1..Len(st) :
          /\ st[i][1] = "dump" =>
               /\ \E j \in 1..(i - 1) : st[j][1] = "diff"
               /\ \A j \in 1..(i - 1) : st[j][1] # "restore" /\ st[j][2]
          /\ st[i][1] = "drop" =>
               /\ i = Len(st)
               /\ \E j \in 1..(i - 1) : st[j] = <<"new", TRUE>>

C7_MutationsGuarded ==
  /\ lockfile' # lockfile => guard["p1"].live
  /\ H1.updated # h'["p1"].updated =>
       (guard["p1"].live /\ ~guard["p1"].restored)

C7_Order == [](C7_StepsInOrder) /\ [][C7_MutationsGuarded]_vars

C7_Witness ==
  /\ Returned
  /\ result["p1"] = "ok"
  /\ Names(H1.steps) = <<"before_metadata", "new", "update", "after_metadata",
                         "diff", "restore", "drop">>
  /\ H1.updWrote # H1.orig

\* ------------------------------------------------------------------------
\* Properties of package specifications
\* ------------------------------------------------------------------------
Contains(m, t) ==
  \E i \in 0..(Len(m) - Len(t)) : SubSeq(m, i + 1, i + Len(t)) = t

\* C8: whenever parsing fails, for want of a ':' or for a bad version after
\* it, the message starts with "invalid package specification: ", ends with
\* the hint at "name:x.y.z", and holds the offending text.
C8_ErrorNamesText ==
  (pc["p1"] = "id_parsed" /\ ~parsed.ok) =>
    /\ parsed.msg # <<>>
    /\ Head(parsed.msg) = "invalid package specification: "
    /\ parsed.msg[Len(parsed.msg)] = "; expected \"name:x.y.z\""
    /\ Contains(parsed.msg, text)

\* The part of C8 the code does satisfy: a text without ':' is rejected with
\* that message.
C8_NoColonMessage ==
  (pc["p1"] = "id_parsed" /\ find(text, ":") = 0) =>
    /\ ~parsed.ok
    /\ parsed.msg = InvalidSpecification(text)
    /\ Contains(parsed.msg, text)

\* C9: an accepted text splits at its first ':' into the name and a version;
\* printing gives the name, ':' and the version's three numbers; the printed
\* form is accepted and parses to the same identifier.
C9_RoundTrip ==
  /\ (pc["p1"] # "id_start" /\ parsed.ok) =>
       LET n == Len(parsed.id.name)
       IN /\ n < Len(text)
          /\ text[n + 1] = ":"
          /\ \A i \in 1..n : text[i] # ":" /\ text[i] = parsed.id.name[i]
          /\ Version_from_str(SubSeq(text, n + 2, Len(text))).version
               = parsed.id.version
  /\ pc["p1"] \in {"id_shown", "id_reparsed"} =>
       LET n == Len(parsed.id.name)
       IN /\ SubSeq(shown, 1, n) = parsed.id.name
          /\ Len(shown) > n
          /\ shown[n + 1] = ":"
          /\ SubSeq(shown, n + 2, Len(shown)) = Version_fmt(parsed.id.version)
  /\ pc["p1"] = "id_reparsed" => (reparsed.ok /\ reparsed.id = parsed.id)

C9_Witness ==
  /\ pc["p1"] = "id_reparsed"
  /\ reparsed.ok
  /\ parsed.id.name # <<>>
  /\ parsed.id.version.major > 0

\* ------------------------------------------------------------------------
\* Properties of diff
\* ------------------------------------------------------------------------
\* The source directory of a package version in the registry's cache.
SourceOf(id) ==
  Path("registry", <<id.name \o <<"-">> \o Version_fmt(id.version)>>)

CopiedTo(t, id) == <<join(DestRoot, t), Copy(SourceOf(id))>> \in dest

BothFetched ==
  Len(obs.fetched) = 2 /\ obs.fetched[1].ok /\ obs.fetched[2].ok

QuietCopyMode == obs.diffRuns = 0 /\ obs.probes = 0 /\ out = <<>>

\* C10, as stated: whenever diff with a destination returns after both
\* fetches succeeded (and no directory call failed for a reason outside the
\* program), it returns Ok, D/<first> and D/<second> hold copies of the two
\* packages' sources, the diff collaborator was not invoked and nothing was
\* written to the output; for every pair first, second.
C10_CopiesBoth ==
  (Returned /\ args.dest.some /\ BothFetched /\ ~obs.ioFailed) =>
    /\ result["p1"] = "ok"
    /\ CopiedTo(args.firstText, args.first)
    /\ CopiedTo(args.secondText, args.second)
    /\ QuietCopyMode

FreshTargets ==
  /\ args.firstText # args.secondText
  /\ ~Exists(obs.destBefore, join(DestRoot, args.firstText))
  /\ ~Exists(obs.destBefore, join(DestRoot, args.secondText))

\* C10, amended: diff with a destination never invokes the diff collaborator
\* and writes no output.  With both fetches succeeding, first and second
\* different and neither D/<first> nor D/<second> there before, it returns
\* Ok with D/<first> and D/<second> holding copies of the two packages'
\* sources, unless a directory call fails.  Otherwise (first = second, or a
\* target already there) copy_dir refuses the existing target and diff
\* returns that error.
C10_CopiesBothWhenFresh ==
  args.dest.some =>
    /\ QuietCopyMode
    /\ (Returned /\ BothFetched /\ ~obs.ioFailed /\ FreshTargets) =>
         result["p1"] = "ok"
    /\ (Returned /\ result["p1"] = "ok") =>
         /\ BothFetched
         /\ FreshTargets
         /\ CopiedTo(args.firstText, args.first)
         /\ CopiedTo(args.secondText, args.second)
    /\ (Returned /\ BothFetched /\ result["p1"] # "ok") =>
         result["p1"] = "io error"

C10_Witness ==
  /\ Returned
  /\ args.dest.some
  /\ result["p1"] = "ok"
  /\ args.first.name = args.second.name
  /\ CopiedTo(args.firstText, args.first)
  /\ CopiedTo(args.secondText, args.second)

NoDest == ~args.dest.some /\ args # NoArgs

MissingDiffTool == "no suitable diff command"

\* C11, as stated: whenever diff without a destination could not launch the
\* diff collaborator, it fails with the message that suggests --destination,
\* whatever the probe says.
C11_AlwaysMissingDiffTool ==
  (Returned /\ NoDest /\ obs.launchFailed) => result["p1"] = MissingDiffTool

\* C11, amended: whenever diff without a destination could not launch the
\* diff collaborator it fails; with the message that suggests --destination
\* when the `--version` probe cannot be launched either or exits non-zero,
\* and with the launch error itself when the probe succeeds.
C11_MissingDiffToolUnlessProbeOk ==
  (Returned /\ NoDest /\ obs.launchFailed) =>
    /\ obs.probes = 1
    /\ obs.diffRuns = 0
    /\ obs.probe = "success" => result["p1"] = "io error"
    /\ obs.probe # "success" => result["p1"] = MissingDiffTool

C11_Witness ==
  /\ Returned
  /\ NoDest
  /\ obs.launchFailed
  /\ obs.probe = "differ"
  /\ result["p1"] = MissingDiffTool

\* C20: in diff without a destination, once the diff collaborator has been
\* launched diff returns Ok whatever its exit status; diff fails only when a
\* fetch failed or the collaborator could not be launched.
C20_ExitStatusIgnored ==
  NoDest =>
    /\ obs.diffRuns > 0 => (Returned /\ result["p1"] = "ok")
    /\ (Returned /\ result["p1"] # "ok") =>
         \/ \E i \in 1..Len(obs.fetched) : ~obs.fetched[i].ok
         \/ obs.launchFailed

C20_Witness ==
  /\ Returned
  /\ NoDest
  /\ obs.diffRuns = 1
  /\ obs.exit = "differ"
  /\ result["p1"] = "ok"

\* The fetches made so far, the latest one and the identifier it was given.
NFetched == Len(obs.fetched)

LastFetched == obs.fetched[NFetched]

LastId == IF NFetched = 1 THEN args.first ELSE args.second

\* C14, as stated: whenever a fetch has returned, by whichever way out, no
\* scratch directory is left.
C14_ScratchAlwaysRemoved ==
  /\ tmp = 0
  /\ \A i \in 1..NFetched : ~obs.fetched[i].left

\* C14, amended: on every way out of fetch that follows the creation of the
\* scratch directory its removal is attempted, and the directory is left
\* behind exactly when that removal fails; a fetch that failed to create it
\* leaves none.
C14_ScratchRemovedUnlessRemovalFails ==
  /\ \A i \in 1..NFetched :
       LET f == obs.fetched[i]
       IN /\ f.left <=> (f.made /\ f.removeFailed)
          /\ ~f.made => ~f.removeFailed
  /\ tmp = Cardinality({i \in 1..NFetched : obs.fetched[i].removeFailed})

C14_Witness ==
  /\ NFetched = 2
  /\ obs.fetched[1].ok /\ obs.fetched[1].made /\ ~obs.fetched[1].left
  /\ ~obs.fetched[2].ok /\ obs.fetched[2].made /\ ~obs.fetched[2].left
  /\ obs.fetched[2].err = "bad manifest path"
  /\ tmp = 0

Matches(pkg, id) ==
  pkg.name = id.name /\ pkg.version = Version_fmt(id.version)

\* C15: a fetch that succeeds returns the parent directory of the manifest
\* of a package of the snapshot with the name and the version asked for,
\* never that of a package with that name and another version; a fetch
\* whose snapshot holds no package with both fails with "can't find
\* package", and that error is returned in no other case.
C15_FetchFindsNameAndVersion ==
  NFetched > 0 =>
    LET f == LastFetched
        pkgs == obs.lastFetch
        hits == {k \in 1..Len(pkgs) : Matches(pkgs[k], LastId)}
    IN /\ f.ok =>
            /\ \E k \in hits : parent(pkgs[k].manifest_path) = Some(f.dir)
            /\ \A k \in 1..Len(pkgs) :
                 (pkgs[k].name = LastId.name /\ k \notin hits) =>
                   parent(pkgs[k].manifest_path) # Some(f.dir)
       /\ (pkgs # <<>> /\ hits = {}) =>
            (~f.ok /\ f.err = "can't find package")
       /\ (~f.ok /\ f.err = "can't find package") =>
            (pkgs # <<>> /\ hits = {})

C15_Witness ==
  /\ NFetched = 2
  /\ LastFetched.ok
  /\ Len(obs.lastFetch) = 3
  /\ obs.lastFetch[2].name = LastId.name
  /\ ~Matches(obs.lastFetch[2], LastId)
  /\ Matches(obs.lastFetch[3], LastId)

\* A step of run that p1 started, with its outcome; a step started at all.
Did(step, ok) == \E i \in 1..Len(H1.steps) : H1.steps[i] = <<step, ok>>

Ran(step) == Did(step, TRUE) \/ Did(step, FALSE)

UpdateFailed == H1.updated /\ Did("update", FALSE)

\* C17: when the update collaborator exits with a non-zero status,
\* update-diff runs no second metadata query, computes no diff, dumps
\* nothing to the destination and calls no explicit restore; the error it
\* returns is "running cargo update failed", also when the automatic restore
\* of the guard fails.
C17_UpdateFailureAborts ==
  UpdateFailed =>
    /\ ~Ran("after_metadata") /\ ~Ran("diff") /\ ~Ran("dump")
    /\ ~Ran("restore")
    /\ dest = {}
    /\ result["p1"] = "running cargo update failed"
    /\ Returned => Ran("drop")

C17_Witness ==
  /\ Returned
  /\ UpdateFailed
  /\ H1.dropFailed
  /\ result["p1"] = "running cargo update failed"

ExplicitRestoreFailed == H1.restores = 1 /\ ~H1.lastOk

DropIdle ==
  /\ ~H1.dropActive
  /\ ~H1.dropFailed
  /\ H1.lastWrites = 0
  /\ H1.lastRemoves = 0

\* C18, as stated: when the explicit restore of update-diff fails, the drop
\* of the guard performs no file operation; when it was the write that
\* failed, the lock file is as the update left it and the backup file still
\* holds the original contents once update-diff has returned the error.
C18_FailedRestoreLeavesUpdate ==
  (Returned /\ ExplicitRestoreFailed) =>
    /\ result["p1"] = "io error"
    /\ DropIdle
    /\ H1.writeFailed =>
         /\ lockfile = File(H1.updWrote)
         /\ lockcopy = File(H1.orig)

\* C18, amended: when the explicit restore of update-diff fails, the guard
\* is already marked restored and its drop performs no file operation; when
\* it was the write that failed, the backup file still holds the original
\* contents once update-diff has returned the error, and the lock file is
\* as the update left it if the write could not start, or holds a proper
\* prefix of the original contents if the write broke off.
C18_FailedRestoreNotRetried ==
  /\ (pc["p1"] = "drop" /\ H1.restores = 1) => guard["p1"].restored
  /\ (Returned /\ ExplicitRestoreFailed) =>
       /\ result["p1"] = "io error"
       /\ DropIdle
       /\ H1.writeFailed =>
            /\ lockfile \in {File(H1.updWrote)}
                 \cup {File(c) : c \in ProperPrefixes(H1.orig)}
            /\ lockcopy = File(H1.orig)
       /\ ~H1.writeFailed => lockfile = File(H1.orig)

C18_Witness ==
  /\ Returned
  /\ ExplicitRestoreFailed
  /\ H1.writeFailed
  /\ lockfile = File(H1.updWrote)
  /\ H1.updWrote # H1.orig
  /\ lockcopy = File(H1.orig)

\* C19: when the first metadata query fails, or LockfileGuard::new fails,
\* update-diff returns that error, the update collaborator is never run,
\* and the lock file and the destination are as they were at entry; so is
\* the backup file when it was the query that failed.
C19_EarlyFailureFrame ==
  /\ Did("before_metadata", FALSE) =>
       /\ H1.steps = <<<<"before_metadata", FALSE>>>>
       /\ Returned
       /\ result["p1"] = "cargo metadata failed"
       /\ lockcopy = H1.startCopy
  /\ (Did("before_metadata", FALSE) \/ Did("new", FALSE)) =>
       /\ Returned
       /\ result["p1"] \in {"cargo metadata failed", "io error"}
       /\ ~Ran("update")
       /\ ~H1.updated
       /\ lockfile = H1.startLock
       /\ dest = {}

C19_Witness ==
  /\ Returned
  /\ Did("new", FALSE)
  /\ result["p1"] = "io error"
  /\ lockfile = H1.startLock
  /\ lockcopy # H1.startCopy

\* The versions a snapshot resolves a package name to.
VersionsOf(snapshot, name) ==
  {snapshot[i].version : i \in {k \in 1..Len(snapshot) :
                                  snapshot[k].name = name}}

NamesOf(snapshot) == {snapshot[i].name : i \in 1..Len(snapshot)}

\* C13: metadata_diff yields an entry for exactly the package names that
\* one snapshot alone holds or that the two snapshots resolve to different
\* versions, and every entry has a before path or an after path.
C13_DiffListsChangedPackages ==
  pc["p1"] = "done" =>
    LET before == locals["p1"].before
        after == locals["p1"].after
        todo == locals["p1"].todo
    IN /\ \A n \in NamesOf(before) \cup NamesOf(after) :
            (VersionsOf(before, n) # VersionsOf(after, n))
              <=> \E i \in 1..Len(todo) : todo[i].name = n
       /\ \A i \in 1..Len(todo) : todo[i].before.some \/ todo[i].after.some

\* The snapshot `current` obtained, the packages its loop has not finished,
\* and how many it has.
Snap == locals["p1"].before

Todo == locals["p1"].todo

NDone == Len(Snap) - Len(Todo)

Marker(pkg) == \E i \in 1..Len(pkg.id) : pkg.id[i] = "crates.io-index"

TargetOf(pkg) == join(DestRoot, pkg.name \o <<":">> \o pkg.version)

Copied(pkg) ==
  /\ parent(pkg.manifest_path).some
  /\ <<TargetOf(pkg), Copy(parent(pkg.manifest_path).path)>> \in dest

HasCopy(pkg) ==
  \E e \in dest : e[1] = TargetOf(pkg) /\ e[2].kind \in {"copy", "partial"}

NotMarker(pkg) == ~Marker(pkg)

\* The skip messages due for the packages done so far, in order.
SkipsDue ==
  LET skipped == SelectSeq(SubSeq(Snap, 1, NDone), NotMarker)
  IN [i \in 1..Len(skipped) |->
        <<"Skipping package", skipped[i].name, "not a crates.io dependency">>]

\* Nothing of the environment stands in the way of the copies: no directory
\* call failed, and every manifest path has a parent.
NoEnvFailure ==
  /\ ~obs.ioFailed
  /\ \A i \in 1..Len(Snap) : parent(Snap[i].manifest_path).some

\* C12, as stated: once `current` has returned with a snapshot, a package of
\* the snapshot has been copied to D/<name>:<version> if and only if its id
\* carries the registry marker, and every other package has been reported
\* as skipped.
C12_CopiedIffRegistry ==
  (Returned /\ Snap # <<>> /\ NoEnvFailure) =>
    /\ \A i \in 1..Len(Snap) : Copied(Snap[i]) <=> Marker(Snap[i])
    /\ \A i \in 1..Len(Snap) :
         NotMarker(Snap[i]) =>
           \E k \in 1..Len(stderr) : stderr[k][2] = Snap[i].name

FreshCurrentTargets ==
  \A i \in 1..Len(Snap) : ~Exists(obs.destBefore, TargetOf(Snap[i]))

\* C12, amended: `current` never copies a package whose id lacks the
\* registry marker; it reports each one as skipped when its turn comes and
\* goes on to the next package, and no failure of the run is that of a
\* skipped package.  The packages with the marker are copied to
\* D/<name>:<version> in snapshot order until one of them fails: on Ok all
\* of them have been copied, and the run returns Ok when no target exists
\* beforehand and no directory call fails.  A failure at a package with the
\* marker (a target already there, a failed copy) ends the run and leaves
\* the packages after it uncopied and unreported.
C12_CopiesRegistryUntilFailure ==
  pc["p1"] \in {"c_loop", "done"} =>
    /\ \A i \in 1..Len(Snap) : NotMarker(Snap[i]) => ~HasCopy(Snap[i])
    /\ Snap # <<>> => stderr = SkipsDue
    /\ \A i \in 1..NDone : Marker(Snap[i]) => Copied(Snap[i])
    /\ \A i \in (NDone + 2)..Len(Snap) : ~HasCopy(Snap[i])
    /\ ~Did("skip", FALSE)
    /\ (Returned /\ result["p1"] = "ok") => (Snap # <<>> /\ Todo = <<>>)
    /\ (Returned /\ result["p1"] # "ok" /\ Did("create_dir_all", TRUE)) =>
         /\ Todo # <<>>
         /\ Marker(Head(Todo))
         /\ ~Copied(Head(Todo))
         /\ Did("pkg_dir", FALSE) \/ Did("copy_dir", FALSE)
    /\ (Returned /\ Snap # <<>> /\ NoEnvFailure /\ FreshCurrentTargets) =>
         result["p1"] = "ok"

C12_Witness ==
  /\ Returned
  /\ result["p1"] = "ok"
  /\ Len(Snap) = 3
  /\ Marker(Snap[1]) /\ Copied(Snap[1])
  /\ NotMarker(Snap[2]) /\ ~HasCopy(Snap[2])
  /\ Marker(Snap[3]) /\ Copied(Snap[3])
  /\ Len(stderr) = 1 /\ stderr[1][2] = Snap[2].name

BothReturned == \A p \in Procs : pc[p] = "done"

\* Every invocation got its guard, and no write of a restore failed.
CleanRace ==
  \A p \in Procs : h[p].acquired /\ ~h[p].writeFailed

\* C16: two invocations of update-diff racing in one project end with the
\* lock file holding what one of the two guards read when it was made, and
\* a guard has read either what the lock file held when its invocation
\* started or what the other invocation's update wrote or restored; so
\* there is a run (the witness) in which both have returned and the lock
\* file differs from what it held before either started.
C16_RaceRestoresAGuardsSnapshot ==
  (BothReturned /\ CleanRace) =>
    /\ \E p \in Procs : lockfile = File(h[p].orig)
    /\ \A p \in Procs :
         \/ File(h[p].orig) = h[p].startLock
         \/ \E q \in Procs \ {p} :
              h[q].updated /\ h[p].orig \in {h[q].updWrote, h[q].orig}
    /\ \A p \in Procs : ~guard[p].live

C16_Witness ==
  /\ BothReturned
  /\ CleanRace
  /\ h["p1"].startLock = File(<<0>>)
  /\ h["p2"].startLock = File(<<0>>)
  /\ Did("update", TRUE)
  /\ h["p2"].orig = H1.updWrote
  /\ result["p1"] = "ok"
  /\ lockfile = File(h["p2"].orig)
  /\ lockfile # File(<<0>>)

====
